---- MODULE Spec2Model ----
(***************************************************************************)
(* Model of the tftp3o server (src/src/main.rs, src/src/tftp.rs).         *)
(*                                                                         *)
(* Datagrams are sequences of bytes (0..255).  `handle` of main.rs is one  *)
(* atomic step: the registry lookup/insert, Tftp::parse, Tftp::respond,    *)
(* Serialise and the send or the eviction.  A Rust panic (unwrap on        *)
(* None/Err, unimplemented!, slice index out of range, arithmetic overflow *)
(* in a build with overflow checks) unwinds out of main's only thread and  *)
(* ends the process: alive becomes FALSE and nothing is handled any more.  *)
(***************************************************************************)
EXTENDS Integers, Sequences, FiniteSets, TLC

(***************************************************************************)
(* Bounds of the model.                                                    *)
(***************************************************************************)
\* length of the longest file on disk
MaxLen == 4
\* largest small block number a client acknowledges (65535 is added)
MaxAck == 3
\* retry budget of the timeout supervisor the specification describes
RetryMax == 1

(***************************************************************************)
(* Program constants.                                                      *)
(***************************************************************************)
UDP_BUFFER_SIZE == 512
DEFAULT_BLOCK_SIZE == 512
DEFAULT_WINDOW_SIZE == 1
OP_CODE_LEN == 2
NULL_SIZE == 1
NULL == 0
\* u16::MAX + 1: Acknowledgement.block and Data.block are u16
U16 == 65536

TSIZE == <<116, 115, 105, 122, 101>>
BLKSIZE == <<98, 108, 107, 115, 105, 122, 101>>
WINDOWSIZE == <<119, 105, 110, 100, 111, 119, 115, 105, 122, 101>>
END == <<>>

(***************************************************************************)
(* Byte-string helpers.                                                    *)
(***************************************************************************)
\* &data[from..] with a 0-based start, as Rust slices
SliceFrom(data, from) == SubSeq(data, from + 1, Len(data))

\* &data[from..to] with 0-based, end-exclusive bounds
Slice(data, from, to) == SubSeq(data, from + 1, to)

\* 0-based index of the first NUL of data, or -1
RECURSIVE FindNul(_, _)
FindNul(data, i) ==
    IF i > Len(data) THEN -1
    ELSE IF data[i] = NULL THEN i - 1
    ELSE FindNul(data, i + 1)

\* <[u8]>::split(|chr| *chr == NULL): n separators give n + 1 segments
RECURSIVE SplitNul(_)
SplitNul(data) ==
    LET n == FindNul(data, 1)
    IN  IF n = -1 THEN <<data>>
        ELSE <<Slice(data, 0, n)>> \o SplitNul(SliceFrom(data, n + 1))

\* usize::to_string: decimal ASCII digits, no padding
RECURSIVE UsizeToString(_)
UsizeToString(n) ==
    IF n < 10 THEN <<48 + n>>
    ELSE UsizeToString(n \div 10) \o <<48 + (n % 10)>>

IsDigit(b) == b >= 48 /\ b <= 57

RECURSIVE DigitsValue(_, _)
DigitsValue(digits, acc) ==
    IF digits = <<>> THEN acc
    ELSE DigitsValue(Tail(digits), acc * 10 + (Head(digits) - 48))

\* from_utf8 followed by str::parse::<usize>: an optional '+', then one or
\* more ASCII digits.  ok = FALSE is the path to unimplemented! (line 10).
\* (Values beyond usize::MAX also fail to parse; the inputs of the model are
\* a few digits long.)
slice_to_usize(slice) ==
    LET digits == IF slice # <<>> /\ slice[1] = 43 THEN Tail(slice) ELSE slice
    IN  IF digits # <<>> /\ \A i \in 1..Len(digits) : IsDigit(digits[i])
        THEN [ok |-> TRUE, num |-> DigitsValue(digits, 0)]
        ELSE [ok |-> FALSE, num |-> 0]

\* u16::from_be_bytes / u16::to_be_bytes
FromBeBytes(hi, lo) == hi * 256 + lo
ToBeBytes(n) == <<n \div 256, n % 256>>

(***************************************************************************)
(* The file system (external): File::open + read_to_end.                   *)
(***************************************************************************)
NameA == <<97>>
NameB == <<98>>
NameE == <<101>>
NameMissing == <<120>>
\* a file of 65536 bytes: one byte more than 65535 blocks of one byte hold
NameLarge == <<108>>

ContentA == [i \in 1..(MaxLen - 1) |-> 10 + i]
ContentB == [i \in 1..MaxLen |-> 20 + i]
ContentLarge == [i \in 1..U16 |-> i % 251]

\* found = FALSE: File::open returns Err and the unwrap panics
Load(name) ==
    IF name = NameA THEN [found |-> TRUE, content |-> ContentA]
    ELSE IF name = NameB THEN [found |-> TRUE, content |-> ContentB]
    ELSE IF name = NameE THEN [found |-> TRUE, content |-> <<>>]
    ELSE IF name = NameLarge THEN [found |-> TRUE, content |-> ContentLarge]
    ELSE [found |-> FALSE, content |-> <<>>]

(***************************************************************************)
(* Session                                                                 *)
(***************************************************************************)
SessionNew ==
    [data |-> <<>>,
     block_size |-> DEFAULT_BLOCK_SIZE,
     file_size |-> 0,
     window_size |-> DEFAULT_WINDOW_SIZE]

(***************************************************************************)
(* TftpOption                                                              *)
(***************************************************************************)
TransferSize(v) == [name |-> "tsize", value |-> v]
BlockSize(v) == [name |-> "blksize", value |-> v]
WindowSize(v) == [name |-> "windowsize", value |-> v]

OptionName(opt) ==
    IF opt.name = "tsize" THEN TSIZE
    ELSE IF opt.name = "blksize" THEN BLKSIZE
    ELSE WINDOWSIZE

\* Serialise for TftpOption: name NUL decimal-value NUL
SerialiseOption(opt) ==
    OptionName(opt) \o <<NULL>> \o UsizeToString(opt.value) \o <<NULL>>

RECURSIVE SerialiseOptions(_)
SerialiseOptions(opts) ==
    IF opts = <<>> THEN <<>>
    ELSE SerialiseOption(Head(opts)) \o SerialiseOptions(Tail(opts))

\* The while-let loop of TftpOption::parse over the NUL-separated segments,
\* from segment i on.  ok = FALSE is a panic: unwrap of a missing value,
\* slice_to_usize on a non-number, or unimplemented! on an unknown name.
RECURSIVE ParseSegments(_, _, _)
ParseSegments(segs, i, options) ==
    IF i > Len(segs) THEN [ok |-> TRUE, options |-> options]
    ELSE IF segs[i] \in {TSIZE, BLKSIZE, WINDOWSIZE}
    THEN IF i + 1 > Len(segs) THEN [ok |-> FALSE, options |-> <<>>]
         ELSE LET v == slice_to_usize(segs[i + 1])
                  opt == IF segs[i] = TSIZE THEN TransferSize(v.num)
                         ELSE IF segs[i] = BLKSIZE THEN BlockSize(v.num)
                         ELSE WindowSize(v.num)
              IN  IF ~v.ok THEN [ok |-> FALSE, options |-> <<>>]
                  ELSE ParseSegments(segs, i + 2, Append(options, opt))
    ELSE IF segs[i] = END THEN [ok |-> TRUE, options |-> options]
    ELSE [ok |-> FALSE, options |-> <<>>]

ParseOptions(data) == ParseSegments(SplitNul(data), 1, <<>>)

(***************************************************************************)
(* Tftp::parse                                                             *)
(***************************************************************************)
Panic == [kind |-> "panic"]

\* The ReadRequest arm, lines 243-255; ptr is 0-based as in the source.
ParseReadRequest(data) ==
    LET ptr0 == OP_CODE_LEN
        n1 == FindNul(SliceFrom(data, ptr0), 1)
        filename == Slice(SliceFrom(data, ptr0), 0, n1)
        ptr1 == ptr0 + Len(filename) + NULL_SIZE
        n2 == FindNul(SliceFrom(data, ptr1), 1)
        mode == Slice(SliceFrom(data, ptr1), 0, n2)
        ptr2 == ptr1 + Len(mode) + NULL_SIZE
        opts == ParseOptions(SliceFrom(data, ptr2))
    IN  IF n1 = -1 THEN Panic
        ELSE IF n2 = -1 THEN Panic
        ELSE IF ~opts.ok THEN Panic
        ELSE [kind |-> "ReadRequest", filename |-> filename, mode |-> mode,
              options |-> opts.options]

\* data[1] (the second byte) alone selects the opcode; indexing past the end
\* of the buffer panics.
Parse(data) ==
    IF Len(data) < 2 THEN Panic
    ELSE IF data[2] = 1 THEN ParseReadRequest(data)
    ELSE IF data[2] = 4
    THEN IF Len(data) < OP_CODE_LEN + 2 THEN Panic
         ELSE [kind |-> "Acknowledgement",
               block |-> FromBeBytes(data[OP_CODE_LEN + 1], data[OP_CODE_LEN + 2])]
    ELSE Panic

(***************************************************************************)
(* Tftp::respond                                                           *)
(***************************************************************************)
\* from_utf8 of the file name; the names of the model are ASCII or hold the
\* lone byte 0xFF, which is not UTF-8
IsUtf8(bytes) == \A i \in 1..Len(bytes) : bytes[i] < 128

\* OptionAcknowledgement::new: the map over req.options, in order, with its
\* assignments to the session.
RECURSIVE ConfirmOptions(_, _, _)
ConfirmOptions(options, session, confirmed) ==
    IF options = <<>> THEN [session |-> session, options |-> confirmed]
    ELSE LET opt == Head(options)
         IN  IF opt.name = "tsize"
             THEN ConfirmOptions(Tail(options), session,
                      Append(confirmed, TransferSize(session.file_size)))
             ELSE IF opt.name = "blksize"
             THEN ConfirmOptions(Tail(options),
                      [session EXCEPT !.block_size = opt.value],
                      Append(confirmed, BlockSize(opt.value)))
             ELSE ConfirmOptions(Tail(options),
                      [session EXCEPT !.window_size = opt.value],
                      Append(confirmed, WindowSize(opt.value)))

\* OptionAcknowledgement::new that reports tsize whether or not it was asked
OptionAcknowledgementNewAlwaysTsize(req, session) ==
    LET confirmed == ConfirmOptions(req.options, session, <<>>)
    IN  [confirmed EXCEPT !.options = Append(@, TransferSize(session.file_size))]

OptionAcknowledgementNew(req, session) == ConfirmOptions(req.options, session, <<>>)

\* The ReadRequest arm of respond with file_size taken from the length of
\* session.data instead of the count read_to_end returns
RespondReadRequestDataLen(req, session) ==
    LET file == Load(req.filename)
        loaded == [session EXCEPT !.data = session.data \o file.content,
                                  !.file_size = Len(session.data \o file.content)]
        oack == OptionAcknowledgementNew(req, loaded)
    IN  IF ~IsUtf8(req.filename) THEN Panic
        ELSE IF ~file.found THEN Panic
        ELSE [kind |-> "Some", session |-> oack.session,
              packet |-> [kind |-> "OptionAcknowledgement", options |-> oack.options]]

\* The ReadRequest arm of respond: read_to_end appends the file to
\* session.data and returns the number of bytes read.
RespondReadRequest(req, session) ==
    LET file == Load(req.filename)
        loaded == [session EXCEPT !.data = session.data \o file.content,
                                  !.file_size = Len(file.content)]
        oack == OptionAcknowledgementNew(req, loaded)
    IN  IF ~IsUtf8(req.filename) THEN Panic
        ELSE IF ~file.found THEN Panic
        ELSE [kind |-> "Some", session |-> oack.session,
              packet |-> [kind |-> "OptionAcknowledgement", options |-> oack.options]]

\* Data::new with the end-of-resource test off by one (>= for >): the
\* zero-length block that ends a resource of k * block_size bytes is lost
DataNewEarlyEnd(ack, session, overflow_checks) ==
    LET current_slice == ack.block * session.block_size
        sum == current_slice + session.block_size
        current_slice_end == IF sum > session.file_size THEN session.file_size ELSE sum
    IN  IF current_slice >= session.file_size THEN [kind |-> "None", session |-> session]
        ELSE IF ack.block + 1 >= U16 /\ overflow_checks THEN Panic
        ELSE [kind |-> "Some", session |-> session,
              packet |-> [kind |-> "Data",
                          block |-> (ack.block + 1) % U16,
                          data |-> Slice(session.data, current_slice, current_slice_end)]]

\* Data::new.  overflow_checks: the build traps arithmetic overflow (debug
\* profile); otherwise ack.block + 1 wraps at 16 bits.  checked_mul and
\* Data::new with the end of the slice clamped to the length of the buffer
\* instead of file_size
DataNewWholeBuffer(ack, session, overflow_checks) ==
    LET current_slice == ack.block * session.block_size
        sum == current_slice + session.block_size
        current_slice_end == IF sum > Len(session.data) THEN Len(session.data) ELSE sum
    IN  IF current_slice > session.file_size THEN [kind |-> "None", session |-> session]
        ELSE IF ack.block + 1 >= U16 /\ overflow_checks THEN Panic
        ELSE [kind |-> "Some", session |-> session,
              packet |-> [kind |-> "Data",
                          block |-> (ack.block + 1) % U16,
                          data |-> Slice(session.data, current_slice, current_slice_end)]]

\* checked_add fail only beyond usize::MAX (a block size above 2^48), which
\* the block sizes of the model do not reach.
DataNew(ack, session, overflow_checks) ==
    LET current_slice == ack.block * session.block_size
        sum == current_slice + session.block_size
        current_slice_end == IF sum > session.file_size THEN session.file_size ELSE sum
    IN  IF current_slice > session.file_size THEN [kind |-> "None", session |-> session]
        ELSE IF ack.block + 1 >= U16 /\ overflow_checks THEN Panic
        ELSE [kind |-> "Some", session |-> session,
              packet |-> [kind |-> "Data",
                          block |-> (ack.block + 1) % U16,
                          data |-> Slice(session.data, current_slice, current_slice_end)]]

Respond(packet, session, overflow_checks) ==
    IF packet.kind = "ReadRequest" THEN RespondReadRequest(packet, session)
    ELSE IF packet.kind = "Acknowledgement" THEN DataNew(packet, session, overflow_checks)
    ELSE Panic

\* Serialise for OpCode and for Tftp
SerialiseOpCode(op) == <<0, op>>

Serialise(packet) ==
    IF packet.kind = "OptionAcknowledgement"
    THEN SerialiseOpCode(6) \o SerialiseOptions(packet.options)
    ELSE SerialiseOpCode(3) \o ToBeBytes(packet.block) \o packet.data

\* Tftp::handle: parse, respond, serialise
TftpHandle(session, data, overflow_checks) ==
    LET packet == Parse(data)
        res == IF packet.kind = "panic" THEN Panic ELSE Respond(packet, session, overflow_checks)
    IN  IF res.kind = "Some"
        THEN [kind |-> "Some", session |-> res.session, bytes |-> Serialise(res.packet)]
        ELSE res

(***************************************************************************)
(* Datagrams the clients send (the inputs of the model).                   *)
(***************************************************************************)
\* client identities (SocketAddr values); Spec runs the first one against
\* the full set of datagrams
AllClients == {1, 2}
Clients == {1}

Octet == <<111, 99, 116, 101, 116>>

OptionBytes(name, value) == name \o <<NULL>> \o value \o <<NULL>>

ReadRequestBytes(name, options) ==
    <<0, 1>> \o name \o <<NULL>> \o Octet \o <<NULL>> \o options

AckBytes(block) == <<0, 4>> \o ToBeBytes(block)

\* option lists of well-formed requests
GoodOptionLists ==
    {<<>>,
     OptionBytes(TSIZE, UsizeToString(0)),
     OptionBytes(TSIZE, UsizeToString(9)),
     OptionBytes(WINDOWSIZE, UsizeToString(2)) \o OptionBytes(BLKSIZE, UsizeToString(2))}
    \cup {OptionBytes(BLKSIZE, UsizeToString(b)) : b \in 0..(MaxLen - 1)}

\* requests that parse and name a file on disk
GoodRequests ==
    {ReadRequestBytes(name, opts) : name \in {NameA, NameB, NameE}, opts \in GoodOptionLists}

Acks == {AckBytes(k) : k \in (0..MaxAck) \cup {U16 - 1}}

\* truncated buffers, missing terminators, non-numeric option values
MalformedDatagrams ==
    {<<>>,                                         \* empty buffer
     <<0>>,                                        \* one byte
     <<0, 4, 0>>,                                  \* truncated Acknowledgement
     <<0, 1, 97>>,                                 \* file name without NUL
     <<0, 1, 97, 0, 111>>,                         \* mode without NUL
     ReadRequestBytes(NameA, OptionBytes(BLKSIZE, <<120>>)),  \* value "x"
     ReadRequestBytes(NameA, BLKSIZE \o <<NULL>>)}            \* option without value

\* opcodes the server does not serve
UnsupportedDatagrams ==
    {<<0, 2, 97, 0, 111, 0>>,                      \* write request
     <<0, 5, 0, 0, 0>>,                            \* Error packet from the client
     <<0, 9>>}                                     \* no opcode of the protocol

\* requests for a resource that cannot be read
UnreadableRequests ==
    {ReadRequestBytes(NameMissing, <<>>),          \* no such file
     ReadRequestBytes(<<255>>, <<>>)}              \* file name that is not UTF-8

\* requests with an option of another name ("foo" = 1), alone and after
\* blksize = 2
UnknownOptionRequests ==
    {ReadRequestBytes(NameA, OptionBytes(<<102, 111, 111>>, <<49>>)),
     ReadRequestBytes(NameA, OptionBytes(BLKSIZE, UsizeToString(2))
                                 \o OptionBytes(<<102, 111, 111>>, <<49>>))}

BadDatagrams ==
    MalformedDatagrams \cup UnsupportedDatagrams \cup UnreadableRequests
        \cup UnknownOptionRequests

(***************************************************************************)
(* State                                                                   *)
(***************************************************************************)
VARIABLES
    sessions,   \* TftpSessions: the registry, a function from the clients that have a Session
    alive,      \* the server process is running (no panic has unwound main)
    out,        \* datagrams sent by the latest step: <<[to, bytes]>> or <<>>
    last,       \* the latest step: [client, data, class]
    requested,  \* clients whose current session has served a Request
    expect,     \* expect[c] = n >= 0: since its Request c has acknowledged exactly 0..n-1, in order; else -1
    quiet,      \* timeout intervals elapsed since the latest datagram arrived
    asked       \* asked[c]: file name and block size of the latest Request served in c's session

vars == <<sessions, alive, out, last, requested, expect, quiet, asked>>

\* asked[c] of a client whose session has served no Request
NotAsked == [name |-> <<>>, blksize |-> DEFAULT_BLOCK_SIZE]

IsBlockSize(opt) == opt.name = "blksize"

\* what a Request asks for: its file and the block size its options propose
\* (the protocol's default when they propose none)
AskedBy(packet) ==
    LET sizes == SelectSeq(packet.options, IsBlockSize)
    IN  [name |-> packet.filename,
         blksize |-> IF sizes = <<>> THEN DEFAULT_BLOCK_SIZE ELSE sizes[Len(sizes)].value]

Init ==
    /\ sessions = <<>>
    /\ alive = TRUE
    /\ out = <<>>
    /\ last = [client |-> 0, data |-> <<>>, class |-> "start"]
    /\ requested = {}
    /\ expect = [c \in AllClients |-> -1]
    /\ quiet = 0
    /\ asked = [c \in AllClients |-> NotAsked]

\* sessions.entry(*client).or_insert(Session::new())
EntryOrInsert(c) == IF c \in DOMAIN sessions THEN sessions[c] ELSE SessionNew

Insert(c, session) ==
    [x \in DOMAIN sessions \cup {c} |-> IF x = c THEN session ELSE sessions[x]]

\* sessions.clear() in place of sessions.remove(client)
RemoveAll(c) == <<>>

Remove(c) == [x \in DOMAIN sessions \ {c} |-> sessions[x]]

\* How the datagram relates to what the client did before (history only)
Classify(c, packet) ==
    IF packet.kind = "panic" THEN "bad"
    ELSE IF packet.kind = "ReadRequest" THEN "request"
    ELSE IF c \notin requested THEN "ack_norequest"
    ELSE IF expect[c] = packet.block THEN "ack_inorder"
    ELSE IF expect[c] > packet.block THEN "ack_duplicate"
    ELSE IF expect[c] >= 0 THEN "ack_ahead"
    ELSE "ack_other"

\* handle of main.rs on the datagram `data` received from client c
Handle(c, data, overflow_checks) ==
    LET buffer == SubSeq(data, 1, IF Len(data) > UDP_BUFFER_SIZE THEN UDP_BUFFER_SIZE ELSE Len(data))
        session == EntryOrInsert(c)
        packet == Parse(buffer)
        res == TftpHandle(session, buffer, overflow_checks)
    IN  /\ alive
        /\ last' = [client |-> c, data |-> buffer, class |-> Classify(c, packet)]
        /\ quiet' = 0
        /\ IF res.kind = "panic"
           THEN /\ alive' = FALSE
                /\ sessions' = Insert(c, session)
                /\ out' = <<>>
                /\ UNCHANGED <<requested, expect, asked>>
           ELSE /\ alive' = TRUE
                /\ IF res.kind = "Some"
                   THEN /\ sessions' = Insert(c, res.session)
                        /\ out' = <<[to |-> c, bytes |-> res.bytes]>>
                   ELSE /\ sessions' = Remove(c)
                        /\ out' = <<>>
                /\ requested' = IF res.kind = "None" THEN requested \ {c}
                                ELSE IF packet.kind = "ReadRequest" THEN requested \cup {c}
                                ELSE requested
                /\ expect' = [expect EXCEPT ![c] =
                                IF res.kind = "None" THEN -1
                                ELSE IF packet.kind = "ReadRequest" THEN 0
                                ELSE IF c \in requested /\ expect[c] = packet.block
                                     THEN packet.block + 1
                                ELSE -1]
                /\ asked' = [asked EXCEPT ![c] =
                                IF res.kind = "None" THEN NotAsked
                                ELSE IF packet.kind = "ReadRequest" THEN AskedBy(packet)
                                ELSE asked[c]]

\* client c sends a well-formed Request for a file on disk; the model stops
\* sending Requests once the session stores more than MaxLen bytes
RecvRequest(c, data) ==
    /\ Len(EntryOrInsert(c).data) <= MaxLen
    /\ Handle(c, data, TRUE)

\* client c sends an Acknowledgement
RecvAck(c, data) ==
    /\ Parse(data).kind = "Acknowledgement"
    /\ \E overflow_checks \in BOOLEAN : Handle(c, data, overflow_checks)

\* client c sends a datagram the server does not serve
RecvBad(c, data) ==
    /\ data \in BadDatagrams
    /\ Handle(c, data, TRUE)

\* One timeout interval passes with no datagram: main stays blocked in
\* recv_from, which has no timeout, and nothing else runs.
Tick ==
    /\ alive
    /\ DOMAIN sessions # {}
    /\ quiet <= RetryMax
    /\ quiet' = quiet + 1
    /\ out' = <<>>
    /\ last' = [client |-> 0, data |-> <<>>, class |-> "tick"]
    /\ UNCHANGED <<sessions, alive, requested, expect, asked>>

Next ==
    \/ \E c \in Clients, data \in GoodRequests : RecvRequest(c, data)
    \/ \E c \in Clients, data \in Acks : RecvAck(c, data)
    \/ \E c \in Clients, data \in BadDatagrams : RecvBad(c, data)
    \/ Tick

Spec == Init /\ [][Next]_vars

(***************************************************************************)
(* Two clients, whose datagrams interleave in any order, with fewer        *)
(* datagrams each.                                                         *)
(***************************************************************************)
TwoRequests ==
    {ReadRequestBytes(NameA, <<>>),
     ReadRequestBytes(NameB, OptionBytes(BLKSIZE, UsizeToString(2)))}

TwoAcks == {AckBytes(0), AckBytes(1), AckBytes(2)}

TwoBad == {<<>>, ReadRequestBytes(NameMissing, <<>>)}

NextTwo ==
    \/ \E c \in AllClients, data \in TwoRequests : RecvRequest(c, data)
    \/ \E c \in AllClients, data \in TwoAcks : RecvAck(c, data)
    \/ \E c \in AllClients, data \in TwoBad : RecvBad(c, data)
    \/ Tick

SpecTwo == Init /\ [][NextTwo]_vars

(***************************************************************************)
(* One client and a resource of more than 65535 blocks.                    *)
(***************************************************************************)
LargeRequests ==
    {ReadRequestBytes(NameLarge, OptionBytes(BLKSIZE, UsizeToString(1))),
     ReadRequestBytes(NameA, <<>>),
     ReadRequestBytes(NameA, OptionBytes(BLKSIZE, UsizeToString(1)))}

LargeAcks == {AckBytes(0), AckBytes(1), AckBytes(U16 - 2), AckBytes(U16 - 1)}

NextLarge ==
    \/ \E c \in Clients, data \in LargeRequests : RecvRequest(c, data)
    \/ \E c \in Clients, data \in LargeAcks : RecvAck(c, data)
    \/ \E c \in Clients, data \in UnsupportedDatagrams : RecvBad(c, data)
    \/ Tick

SpecLarge == Init /\ [][NextLarge]_vars

(***************************************************************************)
(* One client that also sends datagrams whose first byte is not zero.      *)
(***************************************************************************)
\* the datagram with its first byte replaced by 1
HighByte(data) == <<1>> \o SliceFrom(data, 1)

HighByteDatagrams ==
    {HighByte(AckBytes(0)),                        \* 0x01 0x04
     HighByte(AckBytes(1)),
     HighByte(ReadRequestBytes(NameA, <<>>)),      \* 0x01 0x01
     HighByte(ReadRequestBytes(NameB, OptionBytes(BLKSIZE, UsizeToString(2)))),
     <<1, 9>>}

\* client c sends a datagram whose first byte is not zero
RecvHighByte(c, data) ==
    /\ data[1] # 0
    /\ Len(EntryOrInsert(c).data) <= MaxLen
    /\ \E overflow_checks \in BOOLEAN : Handle(c, data, overflow_checks)

NextOpcode ==
    \/ \E c \in Clients, data \in TwoRequests : RecvRequest(c, data)
    \/ \E c \in Clients, data \in TwoAcks : RecvAck(c, data)
    \/ \E c \in Clients, data \in HighByteDatagrams : RecvHighByte(c, data)
    \/ \E c \in Clients, data \in TwoBad : RecvBad(c, data)
    \/ Tick

SpecOpcode == Init /\ [][NextOpcode]_vars

(***************************************************************************)
(* Reading the latest step                                                 *)
(***************************************************************************)
IsData(bytes) == Len(bytes) >= 4 /\ bytes[1] = 0 /\ bytes[2] = 3
IsError(bytes) == Len(bytes) >= 4 /\ bytes[1] = 0 /\ bytes[2] = 5
BlockOf(bytes) == FromBeBytes(bytes[3], bytes[4])
PayloadOf(bytes) == SubSeq(bytes, 5, Len(bytes))
ErrorCodeOf(bytes) == FromBeBytes(bytes[3], bytes[4])

\* the block number of the Acknowledgement handled by the latest step
AckedBlock(step) == FromBeBytes(step.data[3], step.data[4])

\* exactly one Data packet, to client c, with this block number and length
SentOneData(sent, c, block, length) ==
    /\ Len(sent) = 1
    /\ sent[1].to = c
    /\ IsData(sent[1].bytes)
    /\ BlockOf(sent[1].bytes) = block
    /\ Len(PayloadOf(sent[1].bytes)) = length

SentData(sent) == \E i \in 1..Len(sent) : IsData(sent[i].bytes)
SentError(sent, c) == \E i \in 1..Len(sent) : sent[i].to = c /\ IsError(sent[i].bytes)

(***************************************************************************)
(* Claims                                                                  *)
(***************************************************************************)

\* C1: a client that sent a Request and acknowledges 0, 1, 2, ... in order
\* gets, with S the resource size and B >= 1 the block size of its session,
\* Data k+1 of length B for each acknowledgement k < S \div B, Data
\* (S \div B) + 1 of length S % B for acknowledgement S \div B, the session
\* being kept, and on acknowledgement (S \div B) + 1, and on no earlier one,
\* nothing is sent and the session leaves the registry.
C1_InOrderTransfer ==
    [][\A c \in AllClients :
        (last'.client = c /\ last'.class = "ack_inorder") =>
            LET S == sessions[c].file_size
                B == sessions[c].block_size
                k == AckedBlock(last')
            IN  B >= 1 =>
                /\ k <= (S \div B) + 1
                /\ k < S \div B =>
                      SentOneData(out', c, k + 1, B) /\ c \in DOMAIN sessions'
                /\ k = S \div B =>
                      SentOneData(out', c, k + 1, S % B) /\ c \in DOMAIN sessions'
                /\ k = (S \div B) + 1 =>
                      out' = <<>> /\ c \notin DOMAIN sessions'
                /\ c \in DOMAIN sessions' => sessions'[c] = sessions[c]
      ]_vars

\* C1 witness: a transfer of at least two Data blocks has been completed by
\* in-order acknowledgements and its session is evicted
C1_Witness ==
    /\ last.class = "ack_inorder"
    /\ AckedBlock(last) >= 2
    /\ out = <<>>
    /\ last.client \notin DOMAIN sessions
    /\ alive

\* C2: an Acknowledgement for a block the session has already seen
\* acknowledged changes no session and sends no Data packet.
C2_DuplicateAckIgnored ==
    [][\A c \in AllClients :
        (last'.client = c /\ last'.class = "ack_duplicate") =>
            sessions' = sessions /\ ~SentData(out')
      ]_vars

\* C3: an Acknowledgement for a block beyond the last block sent is ignored:
\* no Data is sent and the session stays in the registry, unchanged.
C3_AheadAckIgnored ==
    [][\A c \in AllClients :
        (last'.client = c /\ last'.class = "ack_ahead") =>
            sessions' = sessions /\ ~SentData(out')
      ]_vars

\* C4: handling a datagram never ends the server process, and the session of
\* the client that sent a datagram the server cannot serve is dropped.
C4_NeverAborts ==
    /\ alive
    /\ (last.client \in AllClients /\ last.data \in BadDatagrams) =>
           last.client \notin DOMAIN sessions

\* C5: after a Request naming a resource that does not exist, an Error
\* packet with code 1 has been sent to the client and the registry holds no
\* session for it.
C5_FileNotFoundError ==
    (last.client \in AllClients /\ last.data = ReadRequestBytes(NameMissing, <<>>)) =>
        /\ Len(out) = 1
        /\ out[1].to = last.client
        /\ IsError(out[1].bytes)
        /\ ErrorCodeOf(out[1].bytes) = 1
        /\ last.client \notin DOMAIN sessions

\* C6: after a malformed packet or a packet with an unsupported opcode the
\* client's session is out of the registry and an Error packet has been sent
\* to the client.
C6_MalformedAborts ==
    (last.client \in AllClients /\ last.data \in MalformedDatagrams \cup UnsupportedDatagrams) =>
        /\ last.client \notin DOMAIN sessions
        /\ SentError(out, last.client)

\* C7: after an Acknowledgement from a client that has sent no Request, an
\* Error packet has been sent, no Data packet has been sent and no session
\* is kept for the client.
C7_AckBeforeRequest ==
    last.class = "ack_norequest" =>
        /\ SentError(out, last.client)
        /\ ~SentData(out)
        /\ last.client \notin DOMAIN sessions

\* C8: every session's block size is in 1..65464 and its window size is at
\* least 1.
C8_NegotiatedInRange ==
    \A c \in DOMAIN sessions :
        /\ sessions[c].block_size >= 1
        /\ sessions[c].block_size <= 65464
        /\ sessions[c].window_size >= 1

\* C9: the acknowledgement of block 0 after a Request makes the server send
\* the first window: Data 1, 2, ... up to the window size W, or up to the
\* last block of the resource when it has fewer than W blocks.
C9_FirstWindow ==
    (last.class = "ack_inorder" /\ AckedBlock(last) = 0 /\ last.client \in DOMAIN sessions) =>
        LET s == sessions[last.client]
            blocks == (s.file_size \div s.block_size) + 1
            n == IF s.window_size < blocks THEN s.window_size ELSE blocks
        IN  (s.block_size >= 1 /\ s.window_size >= 1) =>
                /\ Len(out) = n
                /\ \A i \in 1..Len(out) : IsData(out[i].bytes) /\ BlockOf(out[i].bytes) = i

\* C10: when a timeout interval passes with no datagram, the last window of
\* every live session is sent again, and once more than RetryMax intervals
\* have passed no session is left in the registry.
C10_TimeoutRecovery ==
    /\ (last.class = "tick" /\ quiet <= RetryMax /\ DOMAIN sessions # {}) => out # <<>>
    /\ quiet > RetryMax => DOMAIN sessions = {}

(***************************************************************************)
(* Reading Requests and OptionAcknowledgements as a client does            *)
(***************************************************************************)
IsOack(bytes) == Len(bytes) >= 2 /\ bytes[1] = 0 /\ bytes[2] = 6

\* segments of a NUL-terminated list of strings, without the empty tail
RECURSIVE Strings(_)
Strings(bytes) ==
    LET n == FindNul(bytes, 1)
    IN  IF n = -1 THEN <<>>
        ELSE <<SubSeq(bytes, 1, n)>> \o Strings(SubSeq(bytes, n + 2, Len(bytes)))

\* <<name, value>> pairs of a list name NUL value NUL ...
RECURSIVE Pairs(_)
Pairs(strings) ==
    IF Len(strings) < 2 THEN <<>>
    ELSE <<<<strings[1], strings[2]>>>> \o Pairs(SubSeq(strings, 3, Len(strings)))

\* the options a Request carries after its file name and mode
RequestOptions(bytes) ==
    LET strings == Strings(SubSeq(bytes, 3, Len(bytes)))
    IN  Pairs(SubSeq(strings, 3, Len(strings)))

\* the file name a Request carries
RequestName(bytes) == Strings(SubSeq(bytes, 3, Len(bytes)))[1]

\* the options an OptionAcknowledgement carries
OackOptions(bytes) == Pairs(Strings(SubSeq(bytes, 3, Len(bytes))))

Names(pairs) == [i \in 1..Len(pairs) |-> pairs[i][1]]

\* the latest step served a Request with an OptionAcknowledgement
ServedRequest ==
    /\ last.class = "request"
    /\ Len(out) = 1
    /\ out[1].to = last.client
    /\ IsOack(out[1].bytes)

\* C11: the OptionAcknowledgement that answers a Request names the options
\* of the Request, all of them and no other, in the Request's order, and it
\* repeats the blksize and windowsize values the client proposed.
C11_NoOptionInvented ==
    ServedRequest =>
        LET proposed == RequestOptions(last.data)
            acked == OackOptions(out[1].bytes)
        IN  /\ Names(acked) = Names(proposed)
            /\ \A i \in 1..Len(proposed) :
                   proposed[i][1] # TSIZE => acked[i] = proposed[i]

\* C11 witness: a Request with two options, windowsize before blksize, has
\* been answered
C11_Witness ==
    /\ ServedRequest
    /\ Names(RequestOptions(last.data)) = <<WINDOWSIZE, BLKSIZE>>

\* C12: the tsize value of the OptionAcknowledgement is the size of the
\* resource the Request names, whatever value the client sent and whatever
\* the session stored before.
C12_TsizeIsResourceSize ==
    ServedRequest =>
        LET proposed == RequestOptions(last.data)
            acked == OackOptions(out[1].bytes)
            size == Len(Load(RequestName(last.data)).content)
        IN  \A i \in 1..Len(proposed) :
                proposed[i][1] = TSIZE =>
                    /\ i <= Len(acked)
                    /\ acked[i][1] = TSIZE
                    /\ acked[i][2] # <<>>
                    /\ \A j \in 1..Len(acked[i][2]) : IsDigit(acked[i][2][j])
                    /\ DigitsValue(acked[i][2], 0) = size

\* C12 witness: a Request with tsize = 9 has been answered in a session that
\* already stored an earlier resource
C12_Witness ==
    /\ ServedRequest
    /\ RequestOptions(last.data) = <<<<TSIZE, UsizeToString(9)>>>>
    /\ sessions[last.client].file_size > 0
    /\ Len(sessions[last.client].data) > sessions[last.client].file_size

IsKnownOption(pair) == pair[1] \in {TSIZE, BLKSIZE, WINDOWSIZE}

\* C13: a Request with an option of an unknown name is answered with an
\* OptionAcknowledgement that names the recognized options of the Request,
\* in order, and not the unknown one; the server keeps running.
C13_UnknownOptionSkipped ==
    (last.client \in AllClients /\ last.data \in UnknownOptionRequests) =>
        /\ alive
        /\ Len(out) = 1
        /\ out[1].to = last.client
        /\ IsOack(out[1].bytes)
        /\ Names(OackOptions(out[1].bytes))
               = Names(SelectSeq(RequestOptions(last.data), IsKnownOption))

\* block k + 1 of a resource cut into blocks of B bytes
BlockOfResource(content, k, B) ==
    LET from == k * B
        to == IF from + B > Len(content) THEN Len(content) ELSE from + B
    IN  IF from >= Len(content) THEN <<>> ELSE SubSeq(content, from + 1, to)

IsAckClass(class) ==
    class \in {"ack_inorder", "ack_duplicate", "ack_ahead", "ack_other", "ack_norequest"}

\* C14: after a Request, also one that arrives while a session is active,
\* every Data block sent for an Acknowledgement k is block k + 1 of the
\* resource that Request names, cut with the block size that Request
\* proposes (512 when it proposes none): nothing of an earlier Request is
\* left in the session.
C14_RestartServesNewResource ==
    (IsAckClass(last.class) /\ last.client \in requested /\ SentData(out)) =>
        PayloadOf(out[1].bytes) =
            BlockOfResource(Load(asked[last.client].name).content,
                            AckedBlock(last), asked[last.client].blksize)

C16_BlocksIncrease ==
    [][(/\ SentData(out)
        /\ SentData(out')
        /\ out'[1].to = out[1].to
        /\ IsAckClass(last'.class))
          => BlockOf(out'[1].bytes) > BlockOf(out[1].bytes)
      ]_vars

\* C17: an Acknowledgement of block 65535 in a session whose resource has
\* data at offset 65535 * block_size (block size at least 1) ends the session
\* cleanly: the process keeps running, no Data packet (whose block number
\* would have wrapped) is sent, and the session leaves the registry.
C17_NoBlockWrap ==
    [][\A c \in AllClients :
        (/\ last'.client = c
         /\ IsAckClass(last'.class)
         /\ AckedBlock(last') = U16 - 1
         /\ c \in DOMAIN sessions
         /\ sessions[c].block_size >= 1
         /\ (U16 - 1) * sessions[c].block_size < sessions[c].file_size)
          => /\ alive'
             /\ ~SentData(out')
             /\ c \notin DOMAIN sessions'
      ]_vars

\* C18: a datagram whose first byte is not zero is never handled as an
\* Acknowledgement or a Request: it is answered with neither an
\* OptionAcknowledgement nor a Data packet.
C18_FullOpcodeDecoded ==
    (last.client \in AllClients /\ Len(last.data) >= 1 /\ last.data[1] # 0) =>
        \A i \in 1..Len(out) : ~IsOack(out[i].bytes) /\ ~IsData(out[i].bytes)

\* C19: in every state the file size recorded in a session is at most the
\* length of its stored content, and the payload of every Data packet sent is
\* a contiguous slice of that content between two offsets of 0..file_size,
\* at most block_size bytes long.
C19_SliceWithinResource ==
    /\ \A c \in DOMAIN sessions : sessions[c].file_size <= Len(sessions[c].data)
    /\ \A i \in 1..Len(out) :
        IsData(out[i].bytes) =>
            /\ out[i].to \in DOMAIN sessions
            /\ LET session == sessions[out[i].to]
               IN  \E from \in 0..session.file_size, to \in 0..session.file_size :
                       /\ from <= to
                       /\ to - from <= session.block_size
                       /\ PayloadOf(out[i].bytes) = Slice(session.data, from, to)

\* C19 witness: a Data packet with a payload is sent from a session whose
\* buffer holds more than the file of the latest Request
C19_Witness ==
    /\ SentData(out)
    /\ PayloadOf(out[1].bytes) # <<>>
    /\ out[1].to \in DOMAIN sessions
    /\ Len(sessions[out[1].to].data) > sessions[out[1].to].file_size

\* C20: handling an Acknowledgement leaves the content, file size, block size
\* and window size of the sender's session as they were, and either sends
\* exactly one Data packet to the sender and keeps the session, or sends
\* nothing and removes the session: the session is in the registry afterwards
\* exactly when a response was sent.
C20_AckFrameEffect ==
    [][\A c \in AllClients :
        (last'.client = c /\ IsAckClass(last'.class)) =>
            /\ (c \in DOMAIN sessions /\ c \in DOMAIN sessions') =>
                   sessions'[c] = sessions[c]
            /\ \/ /\ Len(out') = 1
                  /\ out'[1].to = c
                  /\ IsData(out'[1].bytes)
                  /\ c \in DOMAIN sessions'
               \/ /\ out' = <<>>
                  /\ c \notin DOMAIN sessions'
      ]_vars

====
